---------------------------- MODULE Spec2Model ----------------------------
(***************************************************************************)
(* Model of src/backend/mock_database.py: MockCollection, an in-memory     *)
(* stand-in for a document-store collection, and init_mock_database, which *)
(* seeds the activities and teachers collections.                          *)
(*                                                                         *)
(* One MockCollection instance is modelled.  Python values are tagged      *)
(* records of one shape (so that any two of them can be compared):         *)
(*   str  -> Str(s)     int -> Int(n)     list of str -> List(<<...>>)     *)
(*   dict -> Map(f), f a function from keys to values.                     *)
(* A dict that Python iterates in insertion order AND whose order the code *)
(* depends on (self.data, a query, an operator's field dict) is a sequence *)
(* of entries; a document body, whose order the code never reads, is a     *)
(* function.  A dotted query key "a.b" is written as its split <<"a","b">>.*)
(***************************************************************************)
EXTENDS Naturals, Sequences, FiniteSets, TLC

VARIABLES
    coll,     \* which seeded collection this instance is
    data,     \* self.data: sequence of [k |-> identifier, v |-> body], insertion order
    op,       \* the last call and its arguments
    pre,      \* self.data as it was when the last call started
    ret,      \* what the last call returned, or the exception it raised
    nmut      \* number of insert_one / update_one calls made so far

vars == <<coll, data, op, pre, ret, nmut>>

-----------------------------------------------------------------------------
(* Python values *)

EmptyMap == [k \in {} |-> 0]

Str(s) == [t |-> "str", s |-> s, n |-> 0, l |-> <<>>, m |-> EmptyMap]

Int(n) == [t |-> "int", s |-> "", n |-> n, l |-> <<>>, m |-> EmptyMap]

List(l) == [t |-> "list", s |-> "", n |-> 0, l |-> l, m |-> EmptyMap]

Map(m) == [t |-> "dict", s |-> "", n |-> 0, l |-> <<>>, m |-> m]

Range(seq) == {seq[i] : i \in 1..Len(seq)}

\* hash_password: argon2 output is salted; only that it is not the plaintext matters here
hash_password(password) ==
    CASE password = "art123"   -> "$argon2id$v=19$m=65536,t=3,p=4$salt1$h1"
      [] password = "chess456" -> "$argon2id$v=19$m=65536,t=3,p=4$salt2$h2"
      [] password = "admin789" -> "$argon2id$v=19$m=65536,t=3,p=4$salt3$h3"
      [] OTHER                 -> "$argon2id$v=19$m=65536,t=3,p=4$salt0$h0"

-----------------------------------------------------------------------------
(* The literal seed data of init_mock_database *)

initial_activities ==
  <<
    (   ("_id" :> Str("Chess Club")) @@
        ("description" :> Str("Learn strategies and compete in chess tournaments")) @@
        ("schedule" :> Str("Mondays and Fridays, 3:15 PM - 4:45 PM")) @@
        ("schedule_details" :> Map(("days" :> List(<<"Monday", "Friday">>)) @@
       ("start_time" :> Str("15:15")) @@
       ("end_time" :> Str("16:45")))) @@
        ("max_participants" :> Int(12)) @@
        ("participants" :> List(<<"michael@mergington.edu", "daniel@mergington.edu">>)) ),
    (   ("_id" :> Str("Programming Class")) @@
        ("description" :> Str("Learn programming fundamentals and build software projects")) @@
        ("schedule" :> Str("Tuesdays and Thursdays, 7:00 AM - 8:00 AM")) @@
        ("schedule_details" :> Map(("days" :> List(<<"Tuesday", "Thursday">>)) @@
       ("start_time" :> Str("07:00")) @@
       ("end_time" :> Str("08:00")))) @@
        ("max_participants" :> Int(20)) @@
        ("participants" :> List(<<"emma@mergington.edu", "sophia@mergington.edu">>)) ),
    (   ("_id" :> Str("Morning Fitness")) @@
        ("description" :> Str("Early morning physical training and exercises")) @@
        ("schedule" :> Str("Mondays, Wednesdays, Fridays, 6:30 AM - 7:45 AM")) @@
        ("schedule_details" :> Map(("days" :> List(<<"Monday", "Wednesday", "Friday">>)) @@
       ("start_time" :> Str("06:30")) @@
       ("end_time" :> Str("07:45")))) @@
        ("max_participants" :> Int(30)) @@
        ("participants" :> List(<<"john@mergington.edu", "olivia@mergington.edu">>)) ),
    (   ("_id" :> Str("Soccer Team")) @@
        ("description" :> Str("Join the school soccer team and compete in matches")) @@
        ("schedule" :> Str("Tuesdays and Thursdays, 3:30 PM - 5:30 PM")) @@
        ("schedule_details" :> Map(("days" :> List(<<"Tuesday", "Thursday">>)) @@
       ("start_time" :> Str("15:30")) @@
       ("end_time" :> Str("17:30")))) @@
        ("max_participants" :> Int(22)) @@
        ("participants" :> List(<<"liam@mergington.edu", "noah@mergington.edu">>)) ),
    (   ("_id" :> Str("Basketball Team")) @@
        ("description" :> Str("Practice and compete in basketball tournaments")) @@
        ("schedule" :> Str("Wednesdays and Fridays, 3:15 PM - 5:00 PM")) @@
        ("schedule_details" :> Map(("days" :> List(<<"Wednesday", "Friday">>)) @@
       ("start_time" :> Str("15:15")) @@
       ("end_time" :> Str("17:00")))) @@
        ("max_participants" :> Int(15)) @@
        ("participants" :> List(<<"ava@mergington.edu", "mia@mergington.edu">>)) ),
    (   ("_id" :> Str("Art Club")) @@
        ("description" :> Str("Explore various art techniques and create masterpieces")) @@
        ("schedule" :> Str("Thursdays, 3:15 PM - 5:00 PM")) @@
        ("schedule_details" :> Map(("days" :> List(<<"Thursday">>)) @@
       ("start_time" :> Str("15:15")) @@
       ("end_time" :> Str("17:00")))) @@
        ("max_participants" :> Int(15)) @@
        ("participants" :> List(<<"amelia@mergington.edu", "harper@mergington.edu">>)) ),
    (   ("_id" :> Str("Drama Club")) @@
        ("description" :> Str("Act, direct, and produce plays and performances")) @@
        ("schedule" :> Str("Mondays and Wednesdays, 3:30 PM - 5:30 PM")) @@
        ("schedule_details" :> Map(("days" :> List(<<"Monday", "Wednesday">>)) @@
       ("start_time" :> Str("15:30")) @@
       ("end_time" :> Str("17:30")))) @@
        ("max_participants" :> Int(20)) @@
        ("participants" :> List(<<"ella@mergington.edu", "scarlett@mergington.edu">>)) ),
    (   ("_id" :> Str("Math Club")) @@
        ("description" :> Str("Solve challenging problems and prepare for math competitions")) @@
        ("schedule" :> Str("Tuesdays, 7:15 AM - 8:00 AM")) @@
        ("schedule_details" :> Map(("days" :> List(<<"Tuesday">>)) @@
       ("start_time" :> Str("07:15")) @@
       ("end_time" :> Str("08:00")))) @@
        ("max_participants" :> Int(10)) @@
        ("participants" :> List(<<"james@mergington.edu", "benjamin@mergington.edu">>)) ),
    (   ("_id" :> Str("Debate Team")) @@
        ("description" :> Str("Develop public speaking and argumentation skills")) @@
        ("schedule" :> Str("Fridays, 3:30 PM - 5:30 PM")) @@
        ("schedule_details" :> Map(("days" :> List(<<"Friday">>)) @@
       ("start_time" :> Str("15:30")) @@
       ("end_time" :> Str("17:30")))) @@
        ("max_participants" :> Int(12)) @@
        ("participants" :> List(<<"charlotte@mergington.edu", "amelia@mergington.edu">>)) ),
    (   ("_id" :> Str("Weekend Robotics Workshop")) @@
        ("description" :> Str("Build and program robots in our state-of-the-art workshop")) @@
        ("schedule" :> Str("Saturdays, 10:00 AM - 2:00 PM")) @@
        ("schedule_details" :> Map(("days" :> List(<<"Saturday">>)) @@
       ("start_time" :> Str("10:00")) @@
       ("end_time" :> Str("14:00")))) @@
        ("max_participants" :> Int(15)) @@
        ("participants" :> List(<<"ethan@mergington.edu", "oliver@mergington.edu">>)) ),
    (   ("_id" :> Str("Science Olympiad")) @@
        ("description" :> Str("Weekend science competition preparation for regional and state events")) @@
        ("schedule" :> Str("Saturdays, 1:00 PM - 4:00 PM")) @@
        ("schedule_details" :> Map(("days" :> List(<<"Saturday">>)) @@
       ("start_time" :> Str("13:00")) @@
       ("end_time" :> Str("16:00")))) @@
        ("max_participants" :> Int(18)) @@
        ("participants" :> List(<<"isabella@mergington.edu", "lucas@mergington.edu">>)) ),
    (   ("_id" :> Str("Sunday Chess Tournament")) @@
        ("description" :> Str("Weekly tournament for serious chess players with rankings")) @@
        ("schedule" :> Str("Sundays, 2:00 PM - 5:00 PM")) @@
        ("schedule_details" :> Map(("days" :> List(<<"Sunday">>)) @@
       ("start_time" :> Str("14:00")) @@
       ("end_time" :> Str("17:00")))) @@
        ("max_participants" :> Int(16)) @@
        ("participants" :> List(<<"william@mergington.edu", "jacob@mergington.edu">>)) ),
    (   ("_id" :> Str("Manga Maniacs")) @@
        ("description" :> Str("Explore the fantastic stories of the most interesting characters from Japanese Manga (graphic novels)")) @@
        ("schedule" :> Str("Tuesdays, 7:00 PM - 8:00 PM")) @@
        ("schedule_details" :> Map(("days" :> List(<<"Tuesday">>)) @@
       ("start_time" :> Str("19:00")) @@
       ("end_time" :> Str("20:00")))) @@
        ("max_participants" :> Int(15)) @@
        ("participants" :> List(<<>>)) )
  >>

initial_teachers ==
  <<
    (   ("_id" :> Str("mrodriguez")) @@
        ("display_name" :> Str("Ms. Rodriguez")) @@
        ("password" :> Str(hash_password("art123"))) @@
        ("role" :> Str("teacher")) ),
    (   ("_id" :> Str("mchen")) @@
        ("display_name" :> Str("Mr. Chen")) @@
        ("password" :> Str(hash_password("chess456"))) @@
        ("role" :> Str("teacher")) ),
    (   ("_id" :> Str("principal")) @@
        ("display_name" :> Str("Principal Martinez")) @@
        ("password" :> Str(hash_password("admin789"))) @@
        ("role" :> Str("admin")) )
  >>

-----------------------------------------------------------------------------
(* Python's str comparison: lexicographic on code points.  Codes gives the *)
(* code points of the time strings the model compares.                     *)

Digit(c) == 48 + c

\* the code points of the string "HH:MM" written with digits h1 h2 : m1 m2
HHMM(h1, h2, m1, m2) == <<Digit(h1), Digit(h2), 58, Digit(m1), Digit(m2)>>

Codes(s) ==
    CASE s = "06:30" -> HHMM(0,6,3,0)   [] s = "07:00" -> HHMM(0,7,0,0)
      [] s = "07:15" -> HHMM(0,7,1,5)   [] s = "07:45" -> HHMM(0,7,4,5)
      [] s = "08:00" -> HHMM(0,8,0,0)   [] s = "09:30" -> HHMM(0,9,3,0)
      [] s = "10:00" -> HHMM(1,0,0,0)   [] s = "13:00" -> HHMM(1,3,0,0)
      [] s = "14:00" -> HHMM(1,4,0,0)   [] s = "15:00" -> HHMM(1,5,0,0)
      [] s = "15:15" -> HHMM(1,5,1,5)   [] s = "15:30" -> HHMM(1,5,3,0)
      [] s = "16:00" -> HHMM(1,6,0,0)   [] s = "16:45" -> HHMM(1,6,4,5)
      [] s = "17:00" -> HHMM(1,7,0,0)   [] s = "17:30" -> HHMM(1,7,3,0)
      [] s = "19:00" -> HHMM(1,9,0,0)   [] s = "20:00" -> HHMM(2,0,0,0)
      [] OTHER -> <<>>

RECURSIVE LexLess(_, _)
LexLess(a, b) ==
    IF b = <<>> THEN FALSE
    ELSE IF a = <<>> THEN TRUE
    ELSE IF Head(a) # Head(b) THEN Head(a) < Head(b)
    ELSE LexLess(Tail(a), Tail(b))

\* x < y for two Python values of the same type (str or int)
Less(x, y) == IF x.t = "int" THEN x.n < y.n ELSE LexLess(Codes(x.s), Codes(y.s))

-----------------------------------------------------------------------------
(* self.data as an insertion-ordered dict *)

Keys(d) == {d[i].k : i \in 1..Len(d)}

IndexOf(d, id) == IF id \in Keys(d) THEN CHOOSE i \in 1..Len(d) : d[i].k = id ELSE 0

Get(d, id) == d[IndexOf(d, id)].v

\* d[id] = body: an existing key keeps its place, a new key goes last
Put(d, id, body) ==
    IF id \in Keys(d)
    THEN [d EXCEPT ![IndexOf(d, id)] = [k |-> id, v |-> body]]
    ELSE Append(d, [k |-> id, v |-> body])

\* {"_id": doc_id, **body}: a field of the body named _id wins over doc_id
Attach(doc_id, body) ==
    [f \in DOMAIN body \cup {"_id"} |-> IF f \in DOMAIN body THEN body[f] ELSE Str(doc_id)]

\* __init__ as it would be with the loop starting one item late
RECURSIVE ConstructSkipsFirst(_, _)
ConstructSkipsFirst(d, initial_data) ==
    IF Len(initial_data) <= 1 THEN d
    ELSE LET item == initial_data[2]
         IN  ConstructSkipsFirst(Put(d, item["_id"].s, item), Tail(initial_data))

\* MockCollection.__init__: every item is stored whole, its _id included
RECURSIVE Construct(_, _)
Construct(d, initial_data) ==
    IF initial_data = <<>> THEN d
    ELSE LET item == Head(initial_data)
         IN  Construct(Put(d, item["_id"].s, item), Tail(initial_data))

-----------------------------------------------------------------------------
(* _matches_query.  A query is a sequence of entries [key, value]; value is *)
(* [isdict |-> FALSE, v |-> a Python value] or [isdict |-> TRUE, ops |-> a *)
(* function from operator names to Python values].                         *)

Lit(v) == [isdict |-> FALSE, v |-> v, ops |-> EmptyMap]

Ops(f) == [isdict |-> TRUE, v |-> Str(""), ops |-> f]

\* the for loop over keys[:-1]; every value stepped through is a dict in this model
RECURSIVE Navigate(_, _)
Navigate(current, keys) ==
    IF Len(keys) <= 1 THEN [ok |-> TRUE, current |-> current]
    ELSE IF Head(keys) \notin DOMAIN current THEN [ok |-> FALSE, current |-> current]
    ELSE Navigate(current[Head(keys)].m, Tail(keys))

\* the body of the loop over value.items() for a plain key
PlainOpHolds(field, o, op_value) ==
    CASE o = "$gte" -> ~Less(field, op_value)
      [] o = "$lte" -> ~Less(op_value, field)
      [] o = "$in"  -> field.t = "str" /\ field.s \in Range(op_value.l)
      [] OTHER      -> TRUE

RECURSIVE MatchesFrom(_, _, _)
MatchesFrom(doc, query, i) ==
    IF i > Len(query) THEN TRUE
    ELSE
      LET key   == query[i].key
          value == query[i].value
      IN
      IF Len(key) > 1
      THEN
        LET nav       == Navigate(doc, key)
            final_key == key[Len(key)]
        IN
        IF ~nav.ok THEN FALSE
        ELSE IF final_key \notin DOMAIN nav.current THEN FALSE
        ELSE
          LET field == nav.current[final_key] IN
          IF value.isdict
          THEN
            IF "$in" \in DOMAIN value.ops
            THEN IF field.t # "list" THEN FALSE
                 ELSE \E item \in Range(value.ops["$in"].l) : item \in Range(field.l)
            ELSE IF "$gte" \in DOMAIN value.ops
            THEN ~Less(field, value.ops["$gte"])
            ELSE IF "$lte" \in DOMAIN value.ops
            THEN ~Less(value.ops["$lte"], field)
            ELSE MatchesFrom(doc, query, i + 1)
          ELSE field = value.v
      ELSE
        IF key[1] \notin DOMAIN doc THEN FALSE
        ELSE
          IF value.isdict
          THEN /\ \A o \in DOMAIN value.ops : PlainOpHolds(doc[key[1]], o, value.ops[o])
               /\ MatchesFrom(doc, query, i + 1)
          ELSE /\ doc[key[1]] = value.v
               /\ MatchesFrom(doc, query, i + 1)

matches_query(doc, query) == MatchesFrom(doc, query, 1)

-----------------------------------------------------------------------------
(* The read operations *)

\* the loop of find over self.data.items(), from position i on
RECURSIVE FindFrom(_, _, _)
FindFrom(d, query, i) ==
    IF i > Len(d) THEN <<>>
    ELSE (IF matches_query(d[i].v, query) THEN <<Attach(d[i].k, d[i].v)>> ELSE <<>>)
         \o FindFrom(d, query, i + 1)

find(d, query) ==
    IF query = <<>>
    THEN [i \in 1..Len(d) |-> Attach(d[i].k, d[i].v)]
    ELSE FindFrom(d, query, 1)

HasKey(query, name) == \E i \in 1..Len(query) : query[i].key = <<name>>

Lookup(query, name) == query[CHOOSE i \in 1..Len(query) : query[i].key = <<name>>].value

\* the loop of find_one over self.data.items(), from position i on: the position of
\* the first body that matches, 0 when none does
RECURSIVE FirstMatch(_, _, _)
FirstMatch(d, query, i) ==
    IF i > Len(d) THEN 0
    ELSE IF matches_query(d[i].v, query) THEN i
    ELSE FirstMatch(d, query, i + 1)

\* find_one: <<doc>> when found, <<>> for None
find_one(d, query) ==
    IF HasKey(query, "_id")
    THEN LET doc_id == Lookup(query, "_id").v.s
         IN  IF doc_id \in Keys(d) THEN <<Attach(doc_id, Get(d, doc_id))>> ELSE <<>>
    ELSE LET i == FirstMatch(d, query, 1)
         IN  IF i = 0 THEN <<>> ELSE <<Attach(d[i].k, d[i].v)>>

count_documents(d, query) == Len(find(d, query))

\* the days returned by aggregate are sorted by this key: the index in day_order, else 999
day_order == <<"Monday", "Tuesday", "Wednesday", "Thursday", "Friday", "Saturday", "Sunday">>

\* the sort key as it would be with 0 for a day that is not in day_order
DayKeyUnknownZero(x) ==
    IF x \in Range(day_order)
    THEN (CHOOSE i \in 1..Len(day_order) : day_order[i] = x) - 1
    ELSE 0

DayKey(x) ==
    IF x \in Range(day_order)
    THEN (CHOOSE i \in 1..Len(day_order) : day_order[i] = x) - 1
    ELSE 999

\* sorted(days, key=...) of a set: Python iterates a set of str in an order that
\* varies from run to run, and the sort is stable, so equal keys come out in any order
RECURSIVE SortedOrders(_)
SortedOrders(S) ==
    IF S = {} THEN {<<>>}
    ELSE LET least == {x \in S : \A y \in S : DayKey(x) <= DayKey(y)}
         IN  UNION {{<<x>> \o rest : rest \in SortedOrders(S \ {x})} : x \in least}

\* str.replace("$", "") on the $unwind arguments the model uses
StripDollar(s) ==
    CASE s = "$schedule_details.days" -> "schedule_details.days"
      [] s = "$participants"          -> "participants"
      [] OTHER                        -> s

\* the set the loop over self.data.values() builds
CollectDays(d) ==
    UNION {Range(d[i].v["schedule_details"].m["days"].l) :
             i \in {j \in 1..Len(d) : /\ "schedule_details" \in DOMAIN d[j].v
                                      /\ "days" \in DOMAIN d[j].v["schedule_details"].m}}

\* a stage is a function from its operator's name to the operator's argument (a str;
\* "" stands for an argument that is falsy).  The set of lists aggregate can return.
aggregate(d, pipeline) ==
    IF /\ Len(pipeline) >= 2
       /\ "$unwind" \in DOMAIN pipeline[1] /\ pipeline[1]["$unwind"] # ""
       /\ "$group" \in DOMAIN pipeline[2] /\ pipeline[2]["$group"] # ""
       /\ StripDollar(pipeline[1]["$unwind"]) = "schedule_details.days"
    THEN {[i \in 1..Len(sorted_days) |-> ("_id" :> Str(sorted_days[i]))] :
             sorted_days \in SortedOrders(CollectDays(d))}
    ELSE {<<>>}

-----------------------------------------------------------------------------
(* The write operations *)

\* insert_one as it would be if it updated the stored body instead of replacing it
insert_one_merging(d, document) ==
    LET doc_id   == document["_id"].s
        doc_copy == [f \in DOMAIN document \ {"_id"} |-> document[f]]
    IN  Put(d, doc_id, IF doc_id \in Keys(d) THEN doc_copy @@ Get(d, doc_id) ELSE doc_copy)

\* document minus its _id, stored under the _id
insert_one(d, document) ==
    LET doc_id   == document["_id"].s
        doc_copy == [f \in DOMAIN document \ {"_id"} |-> document[f]]
    IN  Put(d, doc_id, doc_copy)

\* list.remove(value): the first occurrence goes
RECURSIVE RemoveFirst(_, _)
RemoveFirst(l, value) ==
    IF l = <<>> THEN <<>>
    ELSE IF Head(l) = value THEN Tail(l)
    ELSE <<Head(l)>> \o RemoveFirst(Tail(l), value)

\* self.data[doc_id] for the doc_id update_one read from the found document:
\* a list or dict is unhashable, any other value that is no key is a KeyError
Subscript(d, doc_id) ==
    IF doc_id.t \in {"list", "dict"} THEN "TypeError"
    ELSE IF doc_id.t # "str" \/ doc_id.s \notin Keys(d) THEN "KeyError"
    ELSE "none"

\* the loop over update["$push"].items(); stops at the first exception, and what
\* it changed before stays changed
RECURSIVE ApplyPush(_, _, _)
ApplyPush(d, doc_id, items) ==
    IF items = <<>> THEN [d |-> d, err |-> "none"]
    ELSE IF Subscript(d, doc_id) # "none" THEN [d |-> d, err |-> Subscript(d, doc_id)]
    ELSE
      LET field   == Head(items).field
          value   == Head(items).value
          body    == Get(d, doc_id.s)
          created == IF field \notin DOMAIN body THEN (field :> List(<<>>)) @@ body ELSE body
      IN
      IF created[field].t # "list"
      THEN [d |-> Put(d, doc_id.s, created), err |-> "AttributeError"]
      ELSE ApplyPush(Put(d, doc_id.s, [created EXCEPT ![field] = List(Append(@.l, value))]),
                     doc_id, Tail(items))

\* the loop over update["$pull"].items()
RECURSIVE ApplyPull(_, _, _)
ApplyPull(d, doc_id, items) ==
    IF items = <<>> THEN [d |-> d, err |-> "none"]
    ELSE IF Subscript(d, doc_id) # "none" THEN [d |-> d, err |-> Subscript(d, doc_id)]
    ELSE
      LET field == Head(items).field
          value == Head(items).value
          body  == Get(d, doc_id.s)
      IN
      IF /\ field \in DOMAIN body
         /\ body[field].t = "list"
         /\ value \in Range(body[field].l)
      THEN ApplyPull(Put(d, doc_id.s, [body EXCEPT ![field] = List(RemoveFirst(@.l, value))]),
                     doc_id, Tail(items))
      ELSE ApplyPull(d, doc_id, Tail(items))

\* update_one as it would be if modified_count counted documents that changed
update_one_counting_changes(d, query, update) ==
    LET found == find_one(d, query) IN
    IF found = <<>> THEN [d |-> d, err |-> "none", modified_count |-> 0]
    ELSE
      LET doc_id == found[1]["_id"]
          pushed == ApplyPush(d, doc_id, update.push)
          pulled == ApplyPull(pushed.d, doc_id, update.pull)
      IN
      IF pushed.err # "none" THEN [d |-> pushed.d, err |-> pushed.err, modified_count |-> 0]
      ELSE IF pulled.err # "none" THEN [d |-> pulled.d, err |-> pulled.err, modified_count |-> 0]
      ELSE [d |-> pulled.d, err |-> "none", modified_count |-> IF pulled.d = d THEN 0 ELSE 1]

\* an update is [push, pull, other]: the items of its $push and of its $pull (empty
\* when the operator is absent) and whether it carries any operator besides these.
\* The result is self.data afterwards with modified_count, or with the exception.
update_one(d, query, update) ==
    LET found == find_one(d, query) IN
    IF found = <<>> THEN [d |-> d, err |-> "none", modified_count |-> 0]
    ELSE
      LET doc_id == found[1]["_id"]
          pushed == ApplyPush(d, doc_id, update.push)
          pulled == ApplyPull(pushed.d, doc_id, update.pull)
      IN
      IF pushed.err # "none" THEN [d |-> pushed.d, err |-> pushed.err, modified_count |-> 0]
      ELSE IF pulled.err # "none" THEN [d |-> pulled.d, err |-> pulled.err, modified_count |-> 0]
      ELSE [d |-> pulled.d, err |-> "none", modified_count |-> 1]

-----------------------------------------------------------------------------
(* The calls the model makes *)

MaxCalls == 3

Michael == "michael@mergington.edu"

Newcomer == "newcomer@mergington.edu"

Entry(key, value) == [key |-> key, value |-> value]

StartTime == <<"schedule_details", "start_time">>

EndTime == <<"schedule_details", "end_time">>

\* a club that is not seeded, meeting on a day that is no weekday
GardeningClub ==
    ("_id" :> Str("Gardening Club")) @@
    ("schedule_details" :> Map(("days" :> List(<<"Funday", "Monday">>)) @@
                               ("start_time" :> Str("16:00")) @@
                               ("end_time" :> Str("17:00")))) @@
    ("max_participants" :> Int(12)) @@
    ("participants" :> List(<<>>))

\* a document under a seeded identifier, with other fields than the seeded one:
\* no schedule and no max_participants, and Michael listed twice
SundayReplaced ==
    ("_id" :> Str("Sunday Chess Tournament")) @@
    ("description" :> Str("Replaced")) @@
    ("schedule_details" :> Map(("days" :> List(<<"Someday">>)) @@
                               ("start_time" :> Str("09:30")) @@
                               ("end_time" :> Str("10:00")))) @@
    ("participants" :> List(<<Michael, Newcomer, Michael>>))

Documents == {GardeningClub, SundayReplaced}

ById(id) == <<Entry(<<"_id">>, Lit(Str(id)))>>

UpdateQueries ==
    { ById("Sunday Chess Tournament"),
      <<Entry(StartTime, Ops("$gte" :> Str("19:00")))>> }

Item(field, value) == [field |-> field, value |-> value]

Update(push, pull, other) == [push |-> push, pull |-> pull, other |-> other]

Updates ==
    { Update(<<Item("participants", Newcomer)>>, <<>>, FALSE),
      Update(<<>>, <<Item("participants", Michael)>>, FALSE),
      Update(<<Item("_id", Newcomer)>>, <<>>, FALSE),
      Update(<<>>, <<Item("_id", Newcomer)>>, FALSE),
      Update(<<Item("schedule", Newcomer)>>, <<>>, FALSE),
      Update(<<>>, <<>>, TRUE),
      Update(<<Item("participants", Michael), Item("schedule", Newcomer)>>,
             <<Item("participants", Newcomer)>>, TRUE) }

Queries ==
    { <<>>,
      <<Entry(StartTime, Ops("$gte" :> Str("15:00")))>>,
      <<Entry(StartTime, Ops("$lte" :> Str("15:15")))>>,
      <<Entry(StartTime, Ops(("$gte" :> Str("15:00")) @@ ("$lte" :> Str("16:00"))))>>,
      <<Entry(StartTime, Ops("$gte" :> Str("15:00"))), Entry(EndTime, Ops("$lte" :> Str("17:00")))>>,
      <<Entry(EndTime, Ops("$lte" :> Str("17:00"))), Entry(StartTime, Ops("$gte" :> Str("15:00")))>>,
      <<Entry(<<"max_participants">>, Ops(("$gte" :> Int(12)) @@ ("$lte" :> Int(16)))),
        Entry(<<"schedule_details", "days">>, Ops("$in" :> List(<<"Monday", "Funday">>)))>>,
      <<Entry(<<"role">>, Lit(Str("teacher"))), Entry(<<"display_name">>, Lit(Str("Mr. Chen")))>> }

OneQueries ==
    { ById("Gardening Club"),
      <<Entry(StartTime, Ops("$gte" :> Str("19:00")))>> }

CountQueries == { <<>>, <<Entry(<<"role">>, Lit(Str("teacher")))>> }

Stage(name, arg) == (name :> arg)

DaysPipeline ==
    <<Stage("$unwind", "$schedule_details.days"), Stage("$group", "{_id: $schedule_details.days}")>>

Pipelines ==
    { DaysPipeline,
      <<Stage("$unwind", "$participants"), Stage("$group", "{_id: $participants}")>>,
      <<Stage("$unwind", "$schedule_details.days")>> }

-----------------------------------------------------------------------------
(* State machine: one MockCollection built by init_mock_database, then calls *)

NoUpdate == Update(<<>>, <<>>, FALSE)

Call(name, document, query, update, pipeline) ==
    [name |-> name, document |-> document, query |-> query, update |-> update, pipeline |-> pipeline]

Returned(kind, docs, n, s) == [kind |-> kind, docs |-> docs, n |-> n, s |-> s]

InitialData(c) == IF c = "activities" THEN initial_activities ELSE initial_teachers

Init ==
    /\ coll \in {"activities", "teachers"}
    /\ data = Construct(<<>>, InitialData(coll))
    /\ op = Call("init_mock_database", EmptyMap, <<>>, NoUpdate, <<>>)
    /\ pre = <<>>
    /\ ret = Returned("collection", <<>>, 0, "")
    /\ nmut = 0

Find(query) ==
    /\ op' = Call("find", EmptyMap, query, NoUpdate, <<>>)
    /\ pre' = data
    /\ ret' = Returned("documents", find(data, query), 0, "")
    /\ UNCHANGED <<coll, data, nmut>>

FindOne(query) ==
    /\ op' = Call("find_one", EmptyMap, query, NoUpdate, <<>>)
    /\ pre' = data
    /\ ret' = LET found == find_one(data, query)
              IN  Returned(IF found = <<>> THEN "None" ELSE "document", found, 0, "")
    /\ UNCHANGED <<coll, data, nmut>>

CountDocuments(query) ==
    /\ op' = Call("count_documents", EmptyMap, query, NoUpdate, <<>>)
    /\ pre' = data
    /\ ret' = Returned("count", <<>>, count_documents(data, query), "")
    /\ UNCHANGED <<coll, data, nmut>>

Aggregate(pipeline) ==
    /\ op' = Call("aggregate", EmptyMap, <<>>, NoUpdate, pipeline)
    /\ pre' = data
    /\ \E results \in aggregate(data, pipeline) : ret' = Returned("documents", results, 0, "")
    /\ UNCHANGED <<coll, data, nmut>>

InsertOne(document) ==
    /\ nmut < MaxCalls
    /\ op' = Call("insert_one", document, <<>>, NoUpdate, <<>>)
    /\ pre' = data
    /\ data' = insert_one(data, document)
    /\ ret' = Returned("inserted_id", <<>>, 0, document["_id"].s)
    /\ nmut' = nmut + 1
    /\ UNCHANGED coll

UpdateOne(query, update) ==
    /\ nmut < MaxCalls
    /\ op' = Call("update_one", EmptyMap, query, update, <<>>)
    /\ pre' = data
    /\ LET result == update_one(data, query, update)
       IN  /\ data' = result.d
           /\ ret' = IF result.err # "none"
                     THEN Returned("raise", <<>>, 0, result.err)
                     ELSE Returned("modified_count", <<>>, result.modified_count, "")
    /\ nmut' = nmut + 1
    /\ UNCHANGED coll

Next ==
    \/ \E query \in Queries : Find(query)
    \/ \E query \in OneQueries : FindOne(query)
    \/ \E query \in CountQueries : CountDocuments(query)
    \/ \E pipeline \in Pipelines : Aggregate(pipeline)
    \/ \E document \in Documents : InsertOne(document)
    \/ \E query \in UpdateQueries, update \in Updates : UpdateOne(query, update)

Spec == Init /\ [][Next]_vars

-----------------------------------------------------------------------------
(* Properties *)

\* the position in d of the document update_one acts on, 0 when the query finds none
MatchedIndex(d, query) ==
    IF HasKey(query, "_id") THEN IndexOf(d, Lookup(query, "_id").v.s)
    ELSE FirstMatch(d, query, 1)

OthersUnchanged(i) ==
    /\ Len(data) = Len(pre)
    /\ \A j \in 1..Len(pre) : j # i => data[j] = pre[j]
    /\ data[i].k = pre[i].k

\* C1: after insert_one(d), find_one({_id: d._id}) returns exactly d (every field of
\* d and no other, the identifier attached) and nothing is raised, also when an entry
\* with that identifier existed before.
C1_InsertThenFindOne ==
    op.name = "insert_one" =>
        /\ ret.kind = "inserted_id"
        /\ ret.s = op.document["_id"].s
        /\ find_one(data, ById(op.document["_id"].s)) = <<op.document>>

\* an insert over an existing entry that had fields the new document lacks
C1_Witness ==
    /\ op.name = "insert_one"
    /\ op.document = SundayReplaced
    /\ "Sunday Chess Tournament" \in Keys(pre)
    /\ "max_participants" \in DOMAIN Get(pre, "Sunday Chess Tournament")
    /\ find_one(data, ById("Sunday Chess Tournament")) = <<SundayReplaced>>

\* a document matches when every entry of the query, taken alone, matches
EveryEntryMatches(body, query) ==
    \A i \in 1..Len(query) : matches_query(body, <<query[i]>>)

RECURSIVE Select(_, _, _)
Select(d, query, i) ==
    IF i > Len(d) THEN <<>>
    ELSE (IF EveryEntryMatches(d[i].v, query) THEN <<Attach(d[i].k, d[i].v)>> ELSE <<>>)
         \o Select(d, query, i + 1)

\* C2: find(query), query not empty, returns exactly the documents for which every
\* entry of the query matches.
C2_FindIsConjunction ==
    (op.name = "find" /\ op.query # <<>>) => ret.docs = Select(data, op.query, 1)

\* C3: the documents find() returns carry pairwise distinct identifiers, each the
\* identifier the document is stored under.
C3_IdentifiersKept ==
    LET docs == find(data, <<>>) IN
    /\ Len(docs) = Len(data)
    /\ \A i \in 1..Len(docs) : docs[i]["_id"] = Str(data[i].k)
    /\ \A i, j \in 1..Len(docs) : i # j => docs[i]["_id"] # docs[j]["_id"]

IsPushOf(update) == Len(update.push) = 1 /\ update.pull = <<>> /\ ~update.other

\* C4: $push {f: v} on a matched document without a field f leaves f = [v]; on one
\* whose f is [w], w # v, it leaves f = [w, v]; nothing else changes.
C4_PushCreatesThenAppends ==
    (op.name = "update_one" /\ IsPushOf(op.update) /\ MatchedIndex(pre, op.query) # 0) =>
        LET i      == MatchedIndex(pre, op.query)
            f      == op.update.push[1].field
            v      == op.update.push[1].value
            before == pre[i].v
        IN  /\ f \notin DOMAIN before =>
                  /\ OthersUnchanged(i)
                  /\ data[i].v = (f :> List(<<v>>)) @@ before
            /\ (f \in DOMAIN before /\ before[f].t = "list" /\ Len(before[f].l) = 1
                   /\ before[f].l[1] # v) =>
                  /\ OthersUnchanged(i)
                  /\ data[i].v = [before EXCEPT ![f] = List(<<before[f].l[1], v>>)]

IsPullOf(update) == update.push = <<>> /\ Len(update.pull) = 1 /\ ~update.other

\* l without its element at position p
Without(l, p) == [q \in 1..(Len(l) - 1) |-> IF q < p THEN l[q] ELSE l[q + 1]]

\* C5: $pull {f: v} on a matched document whose f is an array leaves the array as it
\* was when v is not in it, and otherwise removes exactly one occurrence of v.
C5_PullRemovesOne ==
    (op.name = "update_one" /\ IsPullOf(op.update) /\ MatchedIndex(pre, op.query) # 0) =>
        LET i      == MatchedIndex(pre, op.query)
            f      == op.update.pull[1].field
            v      == op.update.pull[1].value
            before == pre[i].v
        IN  (f \in DOMAIN before /\ before[f].t = "list") =>
               /\ f \in DOMAIN data[i].v
               /\ IF v \notin Range(before[f].l)
                  THEN data[i].v[f] = before[f]
                  ELSE \E p \in 1..Len(before[f].l) :
                          /\ before[f].l[p] = v
                          /\ data[i].v[f] = List(Without(before[f].l, p))

SeededCount(c, activities, teachers) == IF c = "activities" THEN activities ELSE teachers

Weekdays == <<"Monday", "Tuesday", "Wednesday", "Thursday", "Friday", "Saturday", "Sunday">>

WeekdayNumber(x) == CHOOSE i \in 1..7 : Weekdays[i] = x

\* every value in the days list of any document
DaysOf(d) ==
    {x \in {"Monday", "Tuesday", "Wednesday", "Thursday", "Friday", "Saturday", "Sunday",
            "Funday", "Someday"} :
        \E i \in 1..Len(d) :
            /\ "schedule_details" \in DOMAIN d[i].v
            /\ "days" \in DOMAIN d[i].v["schedule_details"].m
            /\ x \in Range(d[i].v["schedule_details"].m["days"].l)}

DayResultsOk(results, d) ==
    /\ \A i \in 1..Len(results) : DOMAIN results[i] = {"_id"} /\ results[i]["_id"].t = "str"
    /\ {results[i]["_id"].s : i \in 1..Len(results)} = DaysOf(d)
    /\ \A i, j \in 1..Len(results) : i < j =>
          LET a == results[i]["_id"].s
              b == results[j]["_id"].s
          IN  /\ a # b
              /\ b \in Range(Weekdays) => /\ a \in Range(Weekdays)
                                          /\ WeekdayNumber(a) < WeekdayNumber(b)

\* C8: the days pipeline returns one {_id: day} per distinct day of any document,
\* weekdays in Monday..Sunday order, every other value after them; on the seeded
\* activities, exactly the seven weekdays in order.
C8_DaysAggregate ==
    /\ \A results \in aggregate(data, DaysPipeline) : DayResultsOk(results, data)
    /\ (op.name = "aggregate" /\ op.pipeline = DaysPipeline) => DayResultsOk(ret.docs, data)
    /\ (nmut = 0 /\ coll = "activities") =>
          aggregate(data, DaysPipeline) = {[i \in 1..7 |-> ("_id" :> Str(Weekdays[i]))]}

\* two values that are no weekday, and a weekday that no document has any more
C8_Witness ==
    /\ op.name = "aggregate"
    /\ op.pipeline = DaysPipeline
    /\ Len(ret.docs) = 8
    /\ ret.docs[7]["_id"].s = "Someday"
    /\ ret.docs[8]["_id"].s = "Funday"
    /\ "Sunday" \notin DaysOf(data)

\* minutes since midnight of a time whose code points are c
Minutes(c) == ((c[1] - 48) * 10 + (c[2] - 48)) * 60 + (c[4] - 48) * 10 + (c[5] - 48)

BoundsHold(body, bounds) ==
    /\ "schedule_details" \in DOMAIN body
    /\ "start_time" \in DOMAIN body["schedule_details"].m
    /\ LET t == Minutes(Codes(body["schedule_details"].m["start_time"].s)) IN
       /\ "$gte" \in DOMAIN bounds => t >= Minutes(Codes(bounds["$gte"].s))
       /\ "$lte" \in DOMAIN bounds => t <= Minutes(Codes(bounds["$lte"].s))

RECURSIVE WithinBounds(_, _, _)
WithinBounds(d, bounds, i) ==
    IF i > Len(d) THEN <<>>
    ELSE (IF BoundsHold(d[i].v, bounds) THEN <<Attach(d[i].k, d[i].v)>> ELSE <<>>)
         \o WithinBounds(d, bounds, i + 1)

IsStartTimeQuery(query) ==
    /\ Len(query) = 1
    /\ query[1].key = StartTime
    /\ query[1].value.isdict
    /\ DOMAIN query[1].value.ops \subseteq {"$gte", "$lte"}
    /\ DOMAIN query[1].value.ops # {}

\* C9: find on schedule_details.start_time with $gte, $lte or both returns exactly
\* the activities whose start_time satisfies every bound given.
C9_StartTimeBounds ==
    (op.name = "find" /\ IsStartTimeQuery(op.query)) =>
        ret.docs = WithinBounds(data, op.query[1].value.ops, 1)

\* C10: no stored body contains the identifier field.
C10_NoIdentifierInBody ==
    \A i \in 1..Len(data) : "_id" \notin DOMAIN data[i].v

=============================================================================
